---- MODULE Spec2Model ----
(***************************************************************************)
(* pyio: the access-pattern engine (block map, fill / random-block /       *)
(* copy / read primitives) of src/lib/pyio.py, its older variant           *)
(* src/pyio.py and the native-handle backend src/lib/pyio_win32.py.        *)
(*                                                                         *)
(* A primitive call is a small state machine: `call` holds its arguments,  *)
(* `loc` its local variables, `pc` its position, `ret` how it ended.       *)
(* `disk` is the file system, `fdtab` the table of descriptors the         *)
(* process has been given.  `log` records the system calls performed and   *)
(* `pre` the file system at the moment of the call; neither is read by     *)
(* the program.                                                            *)
(*                                                                         *)
(* The drivers r_all.py and bin/fs_loop.py and the generators filegen.py   *)
(* and bin/filegen.py use the same variables: `call` holds main's (or      *)
(* filegen's) arguments, `pc` main's position, `ret` how main ended, and   *)
(* `loc` the driver's variables: alive, lock, queue, files and threads,    *)
(* each thread with its own position and locals.                           *)
(***************************************************************************)
EXTENDS Integers, Sequences, FiniteSets, TLC

\* ------------------------------------------------------------------ bounds

\* Bytes in the unit the primitives take their sizes in (blksz *= 1024).
KB == 1024
\* Largest file size, in KB, a file is created with or found on disk.
MaxSizeKB == 3
\* Largest block size, in KB, a primitive is called with.
MaxBlk == 3
\* random.randint(a, b) is drawn from RandSamples + 1 evenly spread points of a..b.
RandSamples == 4

VARIABLES disk, fdtab, call, pc, loc, ret, log, pre, faults

vars == <<disk, fdtab, call, pc, loc, ret, log, pre, faults>>

\* ------------------------------------------------------------ values

Min(a, b) == IF a < b THEN a ELSE b
Max(a, b) == IF a < b THEN b ELSE a

\* The modules: the descriptor backend, its older variant, the native-handle backend.
Lib == "lib/pyio"
Old == "pyio"
Win32 == "lib/pyio_win32"

\* The paths of the model's file system; "d" is a directory holding "d/a".
Paths == {"a", "b", "d", "d/a"}

File(data) == [kind |-> "file", data |-> data]
NoFile == [kind |-> "none", data |-> <<>>]
Dir == [kind |-> "dir", data |-> <<>>]

\* os.path.basename and os.path.join over Paths.
basename(p) == IF p = "d/a" THEN "a" ELSE p
join(d, n) == IF d = "d" /\ n = "a" THEN "d/a" ELSE n

\* '\0' * n
Zeros(n) == [i \in 1..n |-> 0]

\* buf * n that comes out one copy short.
RepeatShort(buf, n) ==
    IF n <= 1 \/ Len(buf) = 0 THEN <<>>
    ELSE [i \in 1..(Len(buf) * (n - 1)) |-> buf[((i - 1) % Len(buf)) + 1]]

\* Python's buf * n on a byte string: n copies of buf, none when n <= 0.
Repeat(buf, n) ==
    IF n <= 0 \/ Len(buf) = 0 THEN <<>>
    ELSE [i \in 1..(Len(buf) * n) |-> buf[((i - 1) % Len(buf)) + 1]]

\* An os.urandom that returns one byte too few.
urandom_short(n) == {[i \in 1..(n - 1) |-> ((s * i + s) % 251) + 1] : s \in {3, 5}}

\* os.urandom(n): n unpredictable bytes, drawn here from two byte strings
\* neither of which holds a zero byte or repeats with the block size.
Seeds == {3, 5}
urandom(n) == {[i \in 1..n |-> ((s * i + s) % 251) + 1] : s \in Seeds}

\* A file of n bytes as some earlier w_rand left it.
Content(n) == [i \in 1..n |-> ((7 * i) % 251) + 1]

\* A randint that may come out one KB past its upper end.
randint_wide(a, b) == {a + ((b - a + KB) * k) \div RandSamples : k \in 0..RandSamples}

\* random.randint(a, b), a <= b: sampled points of a..b, both ends included.
randint(a, b) == {a + ((b - a) * k) \div RandSamples : k \in 0..RandSamples}

\* The outcomes of a system call: it succeeds, or (when faults are injected) fails.
Outcomes == IF faults THEN {TRUE, FALSE} ELSE {TRUE}

\* ------------------------------------------------------------ system calls

Entry(sys, fd, off, len) == [sys |-> sys, fd |-> fd, off |-> off, len |-> len]

\* os.stat(p).st_size; a missing path raises OSError.
StatOk(d, p) == d[p].kind # "none"
st_size(d, p) == Len(d[p].data)

\* os.path.isdir
isdir(d, p) == p \in Paths /\ d[p].kind = "dir"

\* A write that ignores the descriptor's offset and appends.
WriteAppend(data, pos, buf) == data \o buf

\* The bytes of `data` after a write of `buf` at offset `pos`: a gap between the
\* old end and pos reads as zeros; an empty write changes nothing.
WriteAt(data, pos, buf) ==
    IF Len(buf) = 0 THEN data
    ELSE LET end == pos + Len(buf)
             n == Max(Len(data), end)
         IN [i \in 1..n |-> IF i > pos /\ i <= end THEN buf[i - pos]
                            ELSE IF i <= Len(data) THEN data[i] ELSE 0]

\* os.read(fd, n) at offset pos: at most n bytes, none at or past the end.
ReadAt(data, pos, n) == SubSeq(data, pos + 1, Min(Len(data), pos + n))

\* A new descriptor on path p.
NewFd(p) == [path |-> p, pos |-> 0, open |-> TRUE]

\* The descriptors that are open.
OpenFds == {i \in 1..Len(fdtab) : fdtab[i].open}

\* The table after os.close(fd).
Closed(t, fd) == [t EXCEPT ![fd].open = FALSE]

\* os.path.samefile(src, dst) guarded as _samefile does: a path that does not
\* exist makes samefile raise OSError, which _samefile turns into False.
samefile(d, src, dst) ==
    IF StatOk(d, src) /\ StatOk(d, dst) THEN src = dst ELSE FALSE

\* ------------------------------------------------------------ block map

\* int(ceil(size / blksz)) for a float size and blksz # 0.
Ceil(size, blksz) ==
    IF blksz > 0 THEN -((-size) \div blksz) ELSE -(size \div (-blksz))

\* range(n)
range(n) == IF n <= 0 THEN <<>> ELSE [i \in 1..n |-> i - 1]

\* A block map that rounds the number of blocks down: int(size / blksz).
blk_map_floor(d, fname, blksz) ==
    LET bs == blksz * KB IN
    IF ~StatOk(d, fname) THEN [err |-> "OSError", map |-> <<>>]
    ELSE IF bs = 0 THEN [err |-> "ZeroDivisionError", map |-> <<>>]
    ELSE LET offsets == range(IF bs > 0 THEN st_size(d, fname) \div bs ELSE 0)
         IN [err |-> "none", map |-> [i \in 1..Len(offsets) |-> offsets[i] * bs]]

\* _blk_map(fname, blksz) on disk d: [err, map].  blksz is in KB.
blk_map_of(d, fname, blksz) ==
    LET bs == blksz * KB IN
    IF ~StatOk(d, fname) THEN [err |-> "OSError", map |-> <<>>]
    ELSE IF bs = 0 THEN [err |-> "ZeroDivisionError", map |-> <<>>]
    ELSE LET offsets == range(Ceil(st_size(d, fname), bs))
         IN [err |-> "none", map |-> [i \in 1..Len(offsets) |-> offsets[i] * bs]]

\* ------------------------------------------------------------ the call frame

NoCall == [mod |-> "", op |-> "", src |-> "", dst |-> "", size |-> 0,
           blksz |-> 0, fsync |-> FALSE]

\* A primitive's locals before its first statement: no descriptor is bound (0).
NoLoc == [size |-> 0, blksz |-> 0, buf |-> <<>>, blk_map |-> <<>>, idx |-> 0,
          dst |-> "", fd |-> 0, fddst |-> 0, exc |-> "none"]

\* The disk with one file "a" of n bytes, or none.
DiskA(f) == [p \in Paths |-> IF p = "a" THEN f ELSE IF p = "d" THEN Dir ELSE NoFile]

Idle(d, flt) ==
    /\ disk = d
    /\ fdtab = <<>>
    /\ call = NoCall
    /\ pc = "idle"
    /\ loc = NoLoc
    /\ ret = "none"
    /\ log = <<>>
    /\ pre = d
    /\ faults = flt

\* ---------------------------------------------------------------- _blk_map

\* A direct call of _blk_map(fname, blksz).
BlkMapCall(m, fname, blksz) ==
    /\ pc = "idle"
    /\ LET r == blk_map_of(disk, fname, blksz) IN
         /\ call' = [NoCall EXCEPT !.mod = m, !.op = "_blk_map", !.src = fname,
                                   !.blksz = blksz]
         /\ loc' = [NoLoc EXCEPT !.blksz = blksz * KB, !.blk_map = r.map]
         /\ ret' = IF r.err = "none" THEN "ok" ELSE r.err
    /\ pc' = "done"
    /\ pre' = disk
    /\ UNCHANGED <<disk, fdtab, log, faults>>

\* ------------------------------------------- steps shared by the primitives

\* os.open(p, O_CREAT | O_TRUNC | O_WRONLY): the file is created or cut to no
\* bytes; a directory, or an injected fault, makes it fail.
CanCreate(p, ok) == ok /\ disk[p].kind # "dir"

\* os.open(p, O_RDONLY): the file must exist.
CanRead(p, ok) == ok /\ disk[p].kind = "file"

\* An open without O_TRUNC: a file that exists keeps its bytes.
KeepOnOpen(p) == IF disk[p].kind = "file" THEN disk ELSE [disk EXCEPT ![p] = File(<<>>)]

\* The disk after a successful os.open(p, O_CREAT | O_TRUNC | O_WRONLY).
Truncated(p) == [disk EXCEPT ![p] = File(<<>>)]

\* os.write(fd, buf): the bytes go to the descriptor's offset, which advances.
WriteFd(fd, buf) ==
    /\ disk' = [disk EXCEPT ![fdtab[fd].path] =
                    File(WriteAt(disk[fdtab[fd].path].data, fdtab[fd].pos, buf))]
    /\ fdtab' = [fdtab EXCEPT ![fd].pos = fdtab[fd].pos + Len(buf)]
    /\ log' = Append(log, Entry("write", fd, fdtab[fd].pos, Len(buf)))

\* A loop that leaves for the finally clause whatever fsync says.
AfterLoopNoFlush == "finally"

\* The position a primitive's loop leaves for: the flush when asked for, else
\* the finally clause.
AfterLoop == IF call.fsync THEN "fsync" ELSE "finally"

\* The primitives that hold one descriptor, fd.
FillOps == {"w_zero", "w_srand", "w_rand"}
SweepOps == {"r_seq", "r_rand", "r_conv"}
OneFdOps == FillOps \cup SweepOps \cup {"w_rand_blk", "r_rand_blk"}
CopyOps == {"cp", "cp_conv", "cp_rand"}

\* fd = os.open(fname, ...) of a one-descriptor primitive: before the try block
\* in lib/pyio.py, where a failure leaves the primitive at once; inside it in
\* pyio.py, where a failure runs the finally clause with fd unbound.
Open1 ==
    /\ pc = "open"
    /\ call.op \in OneFdOps
    /\ LET wr == call.op \in FillOps \cup {"w_rand_blk"}
           p == call.src
       IN \E ok \in Outcomes :
            IF (wr /\ CanCreate(p, ok)) \/ (~wr /\ CanRead(p, ok))
            THEN /\ disk' = IF wr THEN Truncated(p) ELSE disk
                 /\ fdtab' = Append(fdtab, NewFd(p))
                 /\ loc' = [loc EXCEPT !.fd = Len(fdtab) + 1]
                 /\ log' = Append(log, Entry("open", Len(fdtab) + 1, 0, 0))
                 /\ pc' = IF call.op \in {"w_rand_blk", "r_rand_blk"}
                          THEN "seek" ELSE "loop"
                 /\ UNCHANGED ret
            ELSE /\ IF call.mod = Old
                    THEN /\ loc' = [loc EXCEPT !.exc = "OSError"]
                         /\ pc' = "finally"
                         /\ UNCHANGED ret
                    ELSE /\ ret' = "OSError"
                         /\ pc' = "done"
                         /\ UNCHANGED loc
                 /\ UNCHANGED <<disk, fdtab, log>>
    /\ UNCHANGED <<call, pre, faults>>

\* if fsync: os.fsync(fd), of a one-descriptor write primitive.
Fsync1 ==
    /\ pc = "fsync"
    /\ call.op \in OneFdOps
    /\ \E ok \in Outcomes :
         IF ok
         THEN /\ log' = Append(log, Entry("fsync", loc.fd, 0, 0))
              /\ UNCHANGED loc
         ELSE /\ loc' = [loc EXCEPT !.exc = "OSError"]
              /\ UNCHANGED log
    /\ pc' = "finally"
    /\ UNCHANGED <<disk, fdtab, call, ret, pre, faults>>

\* finally: os.close(fd), then the pending exception, if any, goes on to the
\* caller.  Closing a name that was never bound (the open inside the try block
\* failed) raises NameError in its place.
Finally1 ==
    /\ pc = "finally"
    /\ call.op \in OneFdOps
    /\ IF loc.fd = 0
       THEN /\ ret' = "NameError"
            /\ UNCHANGED <<fdtab, log>>
       ELSE /\ fdtab' = Closed(fdtab, loc.fd)
            /\ log' = Append(log, Entry("close", loc.fd, 0, 0))
            /\ ret' = IF loc.exc = "none" THEN "ok" ELSE loc.exc
    /\ pc' = "done"
    /\ UNCHANGED <<disk, call, loc, pre, faults>>

\* ------------------------------------------------ w_zero, w_srand, w_rand

\* The call and the statements before os.open: w_zero and w_srand build their
\* 1024-byte buf and keep size and blksz in KB; w_rand turns both into bytes.
FillCall(m, op, fname, size, blksz, fsync) ==
    /\ pc = "idle"
    /\ op \in FillOps
    /\ call' = [NoCall EXCEPT !.mod = m, !.op = op, !.src = fname, !.size = size,
                              !.blksz = blksz, !.fsync = fsync]
    /\ \E b \in (IF op = "w_srand" THEN urandom(KB) ELSE {Zeros(KB)}) :
         loc' = IF op = "w_rand"
                THEN [NoLoc EXCEPT !.size = size * KB, !.blksz = blksz * KB]
                ELSE [NoLoc EXCEPT !.size = size, !.blksz = blksz, !.buf = b]
    /\ pc' = "open"
    /\ pre' = disk
    /\ UNCHANGED <<disk, fdtab, ret, log, faults>>

\* One turn of the while loop: the last, shorter write when size < blksz (then
\* break), a write of a whole block and size -= blksz otherwise.  w_rand's
\* os.urandom(n) with n < 0 raises ValueError in the interpreters whose
\* os.urandom is built in, and returns '' in those that read /dev/urandom
\* from os.py.
FillLoop ==
    /\ pc = "loop"
    /\ call.op \in FillOps
    /\ LET last == loc.size < loc.blksz
           n == IF last THEN loc.size ELSE loc.blksz
           bufs == IF call.op = "w_rand" THEN urandom(n) ELSE {Repeat(loc.buf, n)}
           raises == IF call.op = "w_rand" /\ n < 0 THEN {TRUE, FALSE} ELSE {FALSE}
       IN \E ok \in Outcomes : \E bad \in raises : \E buf \in bufs :
            IF ok /\ ~bad
            THEN /\ WriteFd(loc.fd, buf)
                 /\ loc' = IF last THEN loc
                           ELSE [loc EXCEPT !.size = loc.size - loc.blksz]
                 /\ pc' = IF last THEN AfterLoop ELSE "loop"
            ELSE /\ loc' = [loc EXCEPT !.exc = IF bad THEN "ValueError" ELSE "OSError"]
                 /\ pc' = "finally"
                 /\ UNCHANGED <<disk, fdtab, log>>
    /\ UNCHANGED <<call, ret, pre, faults>>

\* ------------------------------------------------ w_rand_blk, r_rand_blk

\* The size check with <= for <.
TooBigOrEqual(size, blksz) == size <= blksz

\* if size < blksz: raise ValueError('block size is greater than file size')
TooBig(size, blksz) == size < blksz

\* The statements before os.open: the file's size, the buffer (w_rand_blk),
\* blksz in bytes, and the size check.
RandBlkCall(m, op, fname, blksz, fsync) ==
    /\ pc = "idle"
    /\ op \in {"w_rand_blk", "r_rand_blk"}
    /\ call' = [NoCall EXCEPT !.mod = m, !.op = op, !.src = fname,
                              !.blksz = blksz, !.fsync = fsync]
    /\ IF ~StatOk(disk, fname)
       THEN /\ ret' = "OSError"
            /\ pc' = "done"
            /\ loc' = NoLoc
       ELSE \E b \in urandom(KB) :
              LET size == st_size(disk, fname)
                  buf == IF op = "w_rand_blk" THEN Repeat(b, blksz) ELSE <<>>
              IN /\ loc' = [NoLoc EXCEPT !.size = size, !.blksz = blksz * KB,
                                         !.buf = buf]
                 /\ IF TooBig(size, blksz * KB)
                    THEN ret' = "ValueError" /\ pc' = "done"
                    ELSE ret' = ret /\ pc' = "open"
    /\ pre' = disk
    /\ UNCHANGED <<disk, fdtab, log, faults>>

\* os.lseek(fd, random.randint(0, size - blksz), 0)
RandBlkSeek ==
    /\ pc = "seek"
    /\ \E ok \in Outcomes : \E o \in randint(0, loc.size - loc.blksz) :
         IF ok
         THEN /\ fdtab' = [fdtab EXCEPT ![loc.fd].pos = o]
              /\ log' = Append(log, Entry("lseek", loc.fd, o, 0))
              /\ pc' = IF call.op = "w_rand_blk" THEN "write" ELSE "read"
              /\ UNCHANGED loc
         ELSE /\ loc' = [loc EXCEPT !.exc = "OSError"]
              /\ pc' = "finally"
              /\ UNCHANGED <<fdtab, log>>
    /\ UNCHANGED <<disk, call, ret, pre, faults>>

\* os.write(fd, buf) of w_rand_blk
RandBlkWrite ==
    /\ pc = "write"
    /\ \E ok \in Outcomes :
         IF ok
         THEN /\ WriteFd(loc.fd, loc.buf)
              /\ pc' = AfterLoop
              /\ UNCHANGED loc
         ELSE /\ loc' = [loc EXCEPT !.exc = "OSError"]
              /\ pc' = "finally"
              /\ UNCHANGED <<disk, fdtab, log>>
    /\ UNCHANGED <<call, ret, pre, faults>>

\* os.read(fd, n): the bytes at the descriptor's offset, which advances.
ReadFd(fd, n) == ReadAt(disk[fdtab[fd].path].data, fdtab[fd].pos, n)

\* os.read(fd, blksz) of r_rand_blk
RandBlkRead ==
    /\ pc = "read"
    /\ \E ok \in Outcomes :
         IF ok
         THEN /\ fdtab' = [fdtab EXCEPT ![loc.fd].pos = @ + Len(ReadFd(loc.fd, loc.blksz))]
              /\ log' = Append(log, Entry("read", loc.fd, fdtab[loc.fd].pos,
                                          Len(ReadFd(loc.fd, loc.blksz))))
              /\ UNCHANGED loc
         ELSE /\ loc' = [loc EXCEPT !.exc = "OSError"]
              /\ UNCHANGED <<fdtab, log>>
    /\ pc' = "finally"
    /\ UNCHANGED <<disk, call, ret, pre, faults>>

\* ------------------------------------------------ traversal orders

\* A shuffle that draws with replacement: an offset may come twice.
shuffle_any(s) ==
    LET n == Len(s) IN {[i \in 1..n |-> s[f[i]]] : f \in [1..n -> 1..n]}

\* random.shuffle(s): every ordering of s.
shuffle(s) ==
    LET n == Len(s)
        bij == {f \in [1..n -> 1..n] : \A i, j \in 1..n : i # j => f[i] # f[j]}
    IN {[i \in 1..n |-> s[f[i]]] : f \in bij}

\* list.pop(i) for i = 0 (the first) or i = -1 (the last): [item, rest].
pop(s, i) ==
    IF i = 0 THEN [item |-> Head(s), rest |-> Tail(s)]
    ELSE [item |-> s[Len(s)], rest |-> SubSeq(s, 1, Len(s) - 1)]

\* An index that never alternates.
cycle_stuck(i) == 0

\* cycle([0, -1]).next: the value after i.
cycle_next(i) == IF i = 0 THEN -1 ELSE 0

\* The offset one turn of a map-driven loop takes, and what it leaves:
\* blk_map.pop(idx()) when converging, blk_map.pop() after a shuffle.
TakeOffset(op, m, idx) ==
    IF op \in {"r_conv", "cp_conv"} THEN pop(m, idx) ELSE pop(m, -1)

\* ------------------------------------------------ r_seq, r_rand, r_conv

\* The statements before os.open: blksz in bytes; for r_rand and r_conv the
\* block map (which may raise), shuffled for r_rand.
SweepCall(m, op, fname, blksz) ==
    /\ pc = "idle"
    /\ op \in SweepOps
    /\ call' = [NoCall EXCEPT !.mod = m, !.op = op, !.src = fname, !.blksz = blksz]
    /\ LET r == blk_map_of(disk, fname, blksz) IN
         IF op # "r_seq" /\ r.err # "none"
         THEN /\ ret' = r.err
              /\ pc' = "done"
              /\ loc' = NoLoc
         ELSE /\ \E bm \in (IF op = "r_rand" THEN shuffle(r.map)
                            ELSE IF op = "r_conv" THEN {r.map} ELSE {<<>>}) :
                   loc' = [NoLoc EXCEPT !.blksz = blksz * KB, !.blk_map = bm]
              /\ pc' = "open"
              /\ UNCHANGED ret
    /\ pre' = disk
    /\ UNCHANGED <<disk, fdtab, log, faults>>

\* One turn of the read loop.  r_seq reads the next block and breaks on an
\* empty one; r_rand and r_conv leave when the map is empty, else take an
\* offset off the map, seek to it and read one block.
SweepLoop ==
    /\ pc = "loop"
    /\ call.op \in SweepOps
    /\ \E ok \in Outcomes :
         IF call.op # "r_seq" /\ loc.blk_map = <<>>
         THEN /\ pc' = "finally"
              /\ UNCHANGED <<fdtab, loc, log>>
         ELSE IF ~ok
         THEN /\ loc' = [loc EXCEPT !.exc = "OSError"]
              /\ pc' = "finally"
              /\ UNCHANGED <<fdtab, log>>
         ELSE IF call.op = "r_seq"
         THEN LET buf == ReadFd(loc.fd, loc.blksz) IN
              /\ fdtab' = [fdtab EXCEPT ![loc.fd].pos = @ + Len(buf)]
              /\ log' = Append(log, Entry("read", loc.fd, fdtab[loc.fd].pos, Len(buf)))
              /\ pc' = IF buf = <<>> THEN "finally" ELSE "loop"
              /\ UNCHANGED loc
         ELSE LET t == TakeOffset(call.op, loc.blk_map, loc.idx)
                  buf == ReadAt(disk[call.src].data, t.item, loc.blksz)
              IN /\ fdtab' = [fdtab EXCEPT ![loc.fd].pos = t.item + Len(buf)]
                 /\ log' = log \o <<Entry("lseek", loc.fd, t.item, 0),
                                    Entry("read", loc.fd, t.item, Len(buf))>>
                 /\ loc' = [loc EXCEPT !.blk_map = t.rest, !.idx = cycle_next(loc.idx)]
                 /\ pc' = "loop"
    /\ UNCHANGED <<disk, call, ret, pre, faults>>

\* ------------------------------------------------ cp, cp_conv, cp_rand

\* if os.path.isdir(dst): dst = os.path.join(dst, os.path.basename(src))
Resolve(d, src, dst) == IF isdir(d, dst) THEN join(dst, basename(src)) ELSE dst

\* The statements of the descriptor backend's copies before the first open:
\* the destination is resolved, a copy onto itself is refused (Exception in
\* lib/pyio.py; pyio.py raises the undefined name Error, a NameError), and
\* cp_conv and cp_rand build the block map, cp_rand shuffling it.
CopyCall(m, op, src, dst, blksz, fsync) ==
    /\ pc = "idle"
    /\ op \in CopyOps
    /\ m \in {Lib, Old}
    /\ call' = [NoCall EXCEPT !.mod = m, !.op = op, !.src = src, !.dst = dst,
                              !.blksz = blksz, !.fsync = fsync]
    /\ LET dst1 == Resolve(disk, src, dst)
           r == blk_map_of(disk, src, blksz)
       IN IF samefile(disk, src, dst1)
          THEN /\ ret' = IF m = Lib THEN "Exception" ELSE "NameError"
               /\ pc' = "done"
               /\ loc' = [NoLoc EXCEPT !.dst = dst1]
          ELSE IF op # "cp" /\ r.err # "none"
          THEN /\ ret' = r.err
               /\ pc' = "done"
               /\ loc' = [NoLoc EXCEPT !.dst = dst1]
          ELSE /\ \E bm \in (IF op = "cp_rand" THEN shuffle(r.map)
                             ELSE IF op = "cp_conv" THEN {r.map} ELSE {<<>>}) :
                    loc' = [NoLoc EXCEPT !.dst = dst1, !.blksz = blksz * KB,
                                         !.blk_map = bm]
               /\ pc' = "opensrc"
               /\ UNCHANGED ret
    /\ pre' = disk
    /\ UNCHANGED <<disk, fdtab, log, faults>>

\* fdsrc = os.open(src, os.O_RDONLY): before the try block in lib/pyio.py,
\* inside it in pyio.py.
CopyOpenSrc ==
    /\ pc = "opensrc"
    /\ \E ok \in Outcomes :
         IF CanRead(call.src, ok)
         THEN /\ fdtab' = Append(fdtab, NewFd(call.src))
              /\ loc' = [loc EXCEPT !.fd = Len(fdtab) + 1]
              /\ log' = Append(log, Entry("open", Len(fdtab) + 1, 0, 0))
              /\ pc' = "opendst"
              /\ UNCHANGED ret
         ELSE /\ IF call.mod = Old
                 THEN /\ loc' = [loc EXCEPT !.exc = "OSError"]
                      /\ pc' = "cfinally"
                      /\ UNCHANGED ret
                 ELSE /\ ret' = "OSError"
                      /\ pc' = "done"
                      /\ UNCHANGED loc
              /\ UNCHANGED <<fdtab, log>>
    /\ UNCHANGED <<disk, call, pre, faults>>

\* fddst = os.open(dst, O_CREAT | O_TRUNC | O_WRONLY).  lib/pyio.py: in a try
\* of its own, whose except closes fdsrc and re-raises.  pyio.py: inside the
\* copy's try block, so a failure runs the finally clause with fdst unbound.
CopyOpenDst ==
    /\ pc = "opendst"
    /\ \E ok \in Outcomes :
         IF CanCreate(loc.dst, ok)
         THEN /\ disk' = Truncated(loc.dst)
              /\ fdtab' = Append(fdtab, NewFd(loc.dst))
              /\ loc' = [loc EXCEPT !.fddst = Len(fdtab) + 1]
              /\ log' = Append(log, Entry("open", Len(fdtab) + 1, 0, 0))
              /\ pc' = "cloop"
              /\ UNCHANGED ret
         ELSE IF call.mod = Old
         THEN /\ loc' = [loc EXCEPT !.exc = "OSError"]
              /\ pc' = "cfinally"
              /\ UNCHANGED <<disk, fdtab, log, ret>>
         ELSE /\ fdtab' = Closed(fdtab, loc.fd)
              /\ log' = Append(log, Entry("close", loc.fd, 0, 0))
              /\ ret' = "OSError"
              /\ pc' = "done"
              /\ UNCHANGED <<disk, loc>>
    /\ UNCHANGED <<call, pre, faults>>

\* The native-handle cp before its first open: blksz in bytes and the
\* destination resolved.  It makes no same-file check.
Win32CpCall(src, dst, blksz, fsync) ==
    /\ pc = "idle"
    /\ call' = [NoCall EXCEPT !.mod = Win32, !.op = "cp", !.src = src, !.dst = dst,
                              !.blksz = blksz, !.fsync = fsync]
    /\ loc' = [NoLoc EXCEPT !.dst = Resolve(disk, src, dst), !.blksz = blksz * KB]
    /\ pc' = "create"
    /\ pre' = disk
    /\ UNCHANGED <<disk, fdtab, ret, log, faults>>

\* fddst = win32file.CreateFile(dst, GENERIC_WRITE, 0, None, CREATE_ALWAYS, ...),
\* before the try block: the file is created or cut to no bytes.
Win32CpCreate ==
    /\ pc = "create"
    /\ \E ok \in Outcomes :
         IF CanCreate(loc.dst, ok)
         THEN /\ disk' = Truncated(loc.dst)
              /\ fdtab' = Append(fdtab, NewFd(loc.dst))
              /\ loc' = [loc EXCEPT !.fddst = Len(fdtab) + 1]
              /\ log' = Append(log, Entry("open", Len(fdtab) + 1, 0, 0))
              /\ pc' = "wopensrc"
              /\ UNCHANGED ret
         ELSE /\ ret' = "OSError"
              /\ pc' = "done"
              /\ UNCHANGED <<disk, fdtab, loc, log>>
    /\ UNCHANGED <<call, pre, faults>>

\* with open(src, 'rb') as fdsrc, inside the try block.
Win32CpOpenSrc ==
    /\ pc = "wopensrc"
    /\ \E ok \in Outcomes :
         IF CanRead(call.src, ok)
         THEN /\ fdtab' = Append(fdtab, NewFd(call.src))
              /\ loc' = [loc EXCEPT !.fd = Len(fdtab) + 1]
              /\ log' = Append(log, Entry("open", Len(fdtab) + 1, 0, 0))
              /\ pc' = "cloop"
         ELSE /\ loc' = [loc EXCEPT !.exc = "OSError"]
              /\ pc' = "cfinally"
              /\ UNCHANGED <<fdtab, log>>
    /\ UNCHANGED <<disk, call, ret, pre, faults>>

\* Leaving the native-handle cp's with block, by break or by an exception,
\* closes fdsrc; the descriptor backend closes it in its finally clause.
WithExit(t) == IF call.mod = Win32 THEN Closed(t, loc.fd) ELSE t
WithExitLog(l) ==
    IF call.mod = Win32 THEN Append(l, Entry("close", loc.fd, 0, 0)) ELSE l

\* The position the copy loop leaves for.
AfterCopyLoop == IF call.fsync THEN "cfsync" ELSE "cfinally"

\* One turn of the copy loop.  cp reads the next block of the source and
\* breaks on an empty one, else writes it at the destination's offset.
\* cp_conv and cp_rand leave when the map is empty, else take an offset off
\* the map, seek both descriptors to it, read one block and write it.
CopyLoop ==
    /\ pc = "cloop"
    /\ \E ok \in Outcomes :
         IF call.op # "cp" /\ loc.blk_map = <<>>
         THEN /\ pc' = AfterCopyLoop
              /\ UNCHANGED <<disk, fdtab, loc, log>>
         ELSE IF ~ok
         THEN /\ loc' = [loc EXCEPT !.exc = "OSError"]
              /\ fdtab' = WithExit(fdtab)
              /\ log' = WithExitLog(log)
              /\ pc' = "cfinally"
              /\ UNCHANGED disk
         ELSE IF call.op = "cp"
         THEN LET buf == ReadFd(loc.fd, loc.blksz)
                  at == fdtab[loc.fddst].pos
              IN IF buf = <<>>
                 THEN /\ fdtab' = WithExit(fdtab)
                      /\ log' = WithExitLog(Append(log,
                                    Entry("read", loc.fd, fdtab[loc.fd].pos, 0)))
                      /\ pc' = AfterCopyLoop
                      /\ UNCHANGED <<disk, loc>>
                 ELSE /\ disk' = [disk EXCEPT ![loc.dst] =
                                     File(WriteAt(disk[loc.dst].data, at, buf))]
                      /\ fdtab' = [fdtab EXCEPT ![loc.fd].pos = @ + Len(buf),
                                                ![loc.fddst].pos = @ + Len(buf)]
                      /\ log' = log \o <<Entry("read", loc.fd, fdtab[loc.fd].pos, Len(buf)),
                                         Entry("write", loc.fddst, at, Len(buf))>>
                      /\ pc' = "cloop"
                      /\ UNCHANGED loc
         ELSE LET t == TakeOffset(call.op, loc.blk_map, loc.idx)
                  buf == ReadAt(disk[call.src].data, t.item, loc.blksz)
              IN /\ disk' = [disk EXCEPT ![loc.dst] =
                                File(WriteAt(disk[loc.dst].data, t.item, buf))]
                 /\ fdtab' = [fdtab EXCEPT ![loc.fd].pos = t.item + Len(buf),
                                           ![loc.fddst].pos = t.item + Len(buf)]
                 /\ log' = log \o <<Entry("lseek", loc.fd, t.item, 0),
                                    Entry("lseek", loc.fddst, t.item, 0),
                                    Entry("read", loc.fd, t.item, Len(buf)),
                                    Entry("write", loc.fddst, t.item, Len(buf))>>
                 /\ loc' = [loc EXCEPT !.blk_map = t.rest, !.idx = cycle_next(loc.idx)]
                 /\ pc' = "cloop"
    /\ UNCHANGED <<call, ret, pre, faults>>

\* if fsync: os.fsync(fddst) (win32file.FlushFileBuffers(fddst))
CopyFsync ==
    /\ pc = "cfsync"
    /\ \E ok \in Outcomes :
         IF ok
         THEN /\ log' = Append(log, Entry("fsync", loc.fddst, 0, 0))
              /\ UNCHANGED loc
         ELSE /\ loc' = [loc EXCEPT !.exc = "OSError"]
              /\ UNCHANGED log
    /\ pc' = "cfinally"
    /\ UNCHANGED <<disk, fdtab, call, ret, pre, faults>>

\* A finally clause that closes the source only.
FinallyClosesSrc == IF call.mod = Win32 \/ loc.fd = 0 THEN <<>> ELSE <<loc.fd>>

\* The descriptors the copy's finally clause closes, in order: os.close(fdsrc);
\* os.close(fddst) in the descriptor backend, where closing a name the try
\* block never bound (pyio.py) raises NameError and skips what follows;
\* fddst.close() in the native-handle backend, whose with block has closed
\* fdsrc already.
FinallyCloses ==
    IF call.mod = Win32 THEN <<loc.fddst>>
    ELSE IF loc.fd = 0 THEN <<>>
    ELSE IF loc.fddst = 0 THEN <<loc.fd>>
    ELSE <<loc.fd, loc.fddst>>

\* The finally clause of a copy, then the pending exception goes on to the
\* caller, or the NameError of an unbound name in its place.
CopyFinally ==
    /\ pc = "cfinally"
    /\ LET fds == FinallyCloses
           unbound == call.mod # Win32 /\ (loc.fd = 0 \/ loc.fddst = 0)
       IN /\ fdtab' = [i \in 1..Len(fdtab) |->
                         IF \E k \in 1..Len(fds) : fds[k] = i
                         THEN [fdtab[i] EXCEPT !.open = FALSE] ELSE fdtab[i]]
          /\ log' = log \o [k \in 1..Len(fds) |-> Entry("close", fds[k], 0, 0)]
          /\ ret' = IF unbound THEN "NameError"
                    ELSE IF loc.exc = "none" THEN "ok" ELSE loc.exc
    /\ pc' = "done"
    /\ UNCHANGED <<disk, call, loc, pre, faults>>

\* ------------------------------------------------------------ specifications

\* Sizes in bytes of the files found on disk: whole and partial KB.
Sizes == {k * KB + d : k \in 0..MaxSizeKB, d \in {0, 1, KB \div 2, KB - 1}}
SomeSizes == {k * KB + d : k \in 0..MaxSizeKB, d \in {0, 1}}
CopySizes == {k * KB + d : k \in 0..(MaxSizeKB - 1), d \in {0, 1}}

\* The block sizes a call is made with, in KB.
BlkSizes == 1..MaxBlk
AnyBlkSizes == (-MaxBlk)..MaxBlk

\* An older file, longer than any source, that a destination path may hold.
Older == File([i \in 1..(MaxSizeKB * KB + 2) |-> 255])

\* The disk of the copies: the source "a", no "b", an older file "d/a" in the
\* directory "d".
DiskCopy(n) ==
    [p \in Paths |-> IF p = "a" THEN File(Content(n))
                     ELSE IF p = "d" THEN Dir
                     ELSE IF p = "d/a" THEN Older ELSE NoFile]

\* _blk_map called directly on a file of any size, or on a missing one.
InitBlkMap ==
    \E f \in {File(Content(n)) : n \in Sizes} \cup {NoFile} : Idle(DiskA(f), FALSE)

NextBlkMap ==
    \E m \in {Lib, Old} : \E blksz \in AnyBlkSizes : BlkMapCall(m, "a", blksz)

SpecBlkMap == InitBlkMap /\ [][NextBlkMap]_vars

\* w_zero, w_srand and w_rand of both descriptor modules, on a path that holds
\* nothing or an older file; any system call may fail.
InitFill == \E f \in {NoFile, Older} : Idle(DiskA(f), TRUE)

NextFill ==
    \/ \E m \in {Lib, Old} : \E op \in FillOps : \E size \in 0..MaxSizeKB :
         \E blksz \in BlkSizes : \E fsync \in BOOLEAN :
           FillCall(m, op, "a", size, blksz, fsync)
    \/ Open1
    \/ FillLoop
    \/ Fsync1
    \/ Finally1

SpecFill == InitFill /\ [][NextFill]_vars

\* The fills called with a block size of -1, 0 or 1 KB.  A fill whose loop
\* does not end is followed for MaxTurns system calls.
MaxTurns == MaxSizeKB + 2
LoopBlk == {-1, 0, 1}

InitFillAny == Idle(DiskA(NoFile), FALSE)

FillTurn == Len(log) < MaxTurns /\ FillLoop

NextFillAny ==
    \/ \E m \in {Lib, Old} : \E op \in FillOps : \E size \in 0..MaxSizeKB :
         \E blksz \in LoopBlk : \E fsync \in BOOLEAN :
           FillCall(m, op, "a", size, blksz, fsync)
    \/ Open1
    \/ FillTurn
    \/ Fsync1
    \/ Finally1

SpecFillAny == InitFillAny /\ [][NextFillAny]_vars

\* w_rand_blk and r_rand_blk on a file of any size, or on a missing one.
InitRandBlk ==
    \E f \in {File(Content(n)) : n \in SomeSizes} \cup {NoFile} : Idle(DiskA(f), FALSE)

NextRandBlk ==
    \/ \E m \in {Lib, Old} : \E op \in {"w_rand_blk", "r_rand_blk"} :
         \E blksz \in 0..MaxBlk : \E fsync \in BOOLEAN :
           RandBlkCall(m, op, "a", blksz, fsync)
    \/ Open1
    \/ RandBlkSeek
    \/ RandBlkWrite
    \/ RandBlkRead
    \/ Fsync1
    \/ Finally1

SpecRandBlk == InitRandBlk /\ [][NextRandBlk]_vars

\* The source and destination pairs of a copy: a fresh destination, a
\* directory holding an older file of the source's name, the source itself,
\* and the source's own directory.
CopyPairs == {<<"a", "b">>, <<"a", "d">>, <<"a", "a">>, <<"d/a", "d">>}

\* The read sweeps and the copies of every backend, without faults.
InitSweep == \E n \in CopySizes : Idle(DiskCopy(n), FALSE)

NextSweep ==
    \/ \E m \in {Lib, Old} : \E op \in SweepOps : \E blksz \in 0..MaxBlk :
         SweepCall(m, op, "a", blksz)
    \/ Open1
    \/ SweepLoop
    \/ Finally1
    \/ \E m \in {Lib, Old} : \E op \in CopyOps : \E sd \in CopyPairs :
         \E blksz \in 0..MaxBlk : \E fsync \in BOOLEAN :
           CopyCall(m, op, sd[1], sd[2], blksz, fsync)
    \/ CopyOpenSrc
    \/ CopyOpenDst
    \/ \E sd \in CopyPairs : \E blksz \in 0..MaxBlk : \E fsync \in BOOLEAN :
         Win32CpCall(sd[1], sd[2], blksz, fsync)
    \/ Win32CpCreate
    \/ Win32CpOpenSrc
    \/ CopyLoop
    \/ CopyFsync
    \/ CopyFinally

SpecSweep == InitSweep /\ [][NextSweep]_vars

\* Every primitive of every backend on a small disk, where any system call
\* (open, read, write, lseek, fsync) may fail.
FaultBlk == {1, MaxBlk}
FaultSizes == {0, MaxSizeKB - 1}

InitFault == Idle(DiskCopy(KB + 1), TRUE)

NextFault ==
    \/ \E m \in {Lib, Old} : \E op \in FillOps : \E size \in FaultSizes :
         \E blksz \in FaultBlk : \E fsync \in BOOLEAN :
           FillCall(m, op, "b", size, blksz, fsync)
    \/ FillLoop
    \/ \E m \in {Lib, Old} : \E op \in {"w_rand_blk", "r_rand_blk"} :
         \E blksz \in FaultBlk : \E fsync \in BOOLEAN :
           RandBlkCall(m, op, "a", blksz, fsync)
    \/ RandBlkSeek
    \/ RandBlkWrite
    \/ RandBlkRead
    \/ \E m \in {Lib, Old} : \E op \in SweepOps : \E blksz \in FaultBlk :
         SweepCall(m, op, "a", blksz)
    \/ SweepLoop
    \/ Open1
    \/ Fsync1
    \/ Finally1
    \/ \E m \in {Lib, Old} : \E op \in CopyOps : \E dst \in {"b", "d"} :
         \E blksz \in FaultBlk : \E fsync \in BOOLEAN :
           CopyCall(m, op, "a", dst, blksz, fsync)
    \/ CopyOpenSrc
    \/ CopyOpenDst
    \/ \E dst \in {"b", "d"} : \E blksz \in FaultBlk : \E fsync \in BOOLEAN :
         Win32CpCall("a", dst, blksz, fsync)
    \/ Win32CpCreate
    \/ Win32CpOpenSrc
    \/ CopyLoop
    \/ CopyFsync
    \/ CopyFinally

SpecFault == InitFault /\ [][NextFault]_vars

\* ------------------------------------------------ the drivers: r_all, fs_loop

\* Largest thread count a driver is started with.
MaxThreads == 2

\* The drivers: the one whose workers share a traversal of the tree (r_all.py)
\* and the one whose workers each pick files at random from a list (fs_loop.py).
RAll == "r_all"
FsLoop == "bin/fs_loop"

\* A tree to walk: whether its root is a directory, and the files of each
\* directory in the order the walk lists them (the root's first).
Tree(dirs) == [isdir |-> TRUE, dirs |-> dirs]
NotADir == [isdir |-> FALSE, dirs |-> <<>>]
Trees == {NotADir, Tree(<<<<>>>>), Tree(<<<<"f1">>>>), Tree(<<<<"f1", "f2">>, <<"f3">>>>)}

\* fs_loop.walk's list: os.path.join(root, name) of every file, directory by
\* directory.
RECURSIVE Flatten(_)
Flatten(dirs) == IF dirs = <<>> THEN <<>> ELSE Head(dirs) \o Flatten(Tail(dirs))

\* A thread as threading.Thread(target=...).start() leaves it, about to run
\* the first statement of its target's loop: no file taken, fh not bound (0).
NewThread ==
    [pc |-> "loop", fname |-> "", fh |-> 0, exc |-> "none", got |-> <<>>]

\* The positions of a thread that has ended: its target returned, or an
\* exception left it.
Terminated == {"returned", "died"}

\* The generator walk(directory) before its first next(): no statement of its
\* body has run.  dir is the directory being listed (0: none yet), k the
\* files of it already yielded.
NewQueue == [state |-> "created", dir |-> 0, k |-> 0]

\* A module that loads with alive = False.
NoPoolStopped ==
    [alive |-> FALSE, lock |-> 0, queue |-> NewQueue, files |-> <<>>,
     threads |-> <<>>, i |-> 0, io |-> {}]

\* A driver's variables when its module is loaded: alive (fs_loop.py), and
\* main's locals queue and lock (r_all.py), files (fs_loop.py), threads and i.
\* `io` collects the kinds of blocking I/O done by a thread while it held lock.
NoPool ==
    [alive |-> TRUE, lock |-> 0, queue |-> NewQueue, files |-> <<>>,
     threads |-> <<>>, i |-> 0, io |-> {}]

NoMain == [mod |-> "", op |-> "", threadct |-> 0]

IdlePool(d, flt) ==
    /\ disk = d
    /\ fdtab = <<>>
    /\ call = NoMain
    /\ pc = "idle"
    /\ loc = NoPool
    /\ ret = "none"
    /\ log = <<>>
    /\ pre = d
    /\ faults = flt

\* The threads started so far.
Threads == 1..Len(loc.threads)

\* len(range(args.threadct+1)) in r_all.py, len(range(thr_ct)) in fs_loop.py.
ThreadsToStart ==
    IF call.mod = RAll THEN Max(call.threadct + 1, 0) ELSE Max(call.threadct, 0)

\* r_all.main up to its first loop: queue = walk(args.directory) makes the
\* generator and runs none of its body; lock = threading.Lock(); threads = [].
RAllMain(threadct) ==
    /\ pc = "idle"
    /\ call' = [NoMain EXCEPT !.mod = RAll, !.op = "main", !.threadct = threadct]
    /\ loc' = NoPool
    /\ pc' = "start"
    /\ pre' = disk
    /\ UNCHANGED <<disk, fdtab, ret, log, faults>>

\* fs_loop.main up to its first loop: files = walk(root), which raises
\* ValueError at once when root is not a directory; thrs = [].
FsLoopMain(thr_ct) ==
    /\ pc = "idle"
    /\ call' = [NoMain EXCEPT !.mod = FsLoop, !.op = "main", !.threadct = thr_ct]
    /\ IF ~disk.isdir
       THEN /\ ret' = "ValueError"
            /\ pc' = "done"
            /\ loc' = NoPool
       ELSE /\ loc' = [NoPool EXCEPT !.files = Flatten(disk.dirs)]
            /\ pc' = "start"
            /\ UNCHANGED ret
    /\ pre' = disk
    /\ UNCHANGED <<disk, fdtab, log, faults>>

\* One turn of `for i in range(...)`: a thread is made, started and appended;
\* after the last turn r_all.main goes on to join, fs_loop.main to raw_input.
StartThreads ==
    /\ pc = "start"
    /\ IF loc.i < ThreadsToStart
       THEN /\ loc' = [loc EXCEPT !.threads = Append(@, NewThread), !.i = @ + 1]
            /\ UNCHANGED pc
       ELSE /\ loc' = [loc EXCEPT !.i = 0]
            /\ pc' = IF call.mod = RAll THEN "join" ELSE "input"
    /\ UNCHANGED <<disk, fdtab, call, ret, log, pre, faults>>

\* fs_loop.main: while True: raw_input().  A line is read and the loop goes
\* on; KeyboardInterrupt is caught and sets alive = False; the end of the
\* input raises EOFError, which nothing catches.
FsLoopInput ==
    /\ pc = "input"
    /\ \E key \in {"line", "KeyboardInterrupt", "EOFError"} :
         IF key = "KeyboardInterrupt"
         THEN /\ loc' = [loc EXCEPT !.alive = FALSE]
              /\ pc' = "join"
              /\ UNCHANGED ret
         ELSE IF key = "EOFError"
         THEN /\ ret' = "EOFError"
              /\ pc' = "done"
              /\ UNCHANGED loc
         ELSE UNCHANGED <<loc, pc, ret>>
    /\ UNCHANGED <<disk, fdtab, call, log, pre, faults>>

\* A join that returns whatever the thread is doing.
JoinableAny(i) == TRUE

\* threads[i].join() can return: the thread has ended.
Joinable(i) == loc.threads[i].pc \in Terminated

\* One turn of `for t in threads: t.join()`: join returns when the thread has
\* ended, and blocks until then; after the last turn main returns.
JoinThreads ==
    /\ pc = "join"
    /\ IF loc.i < Len(loc.threads)
       THEN /\ Joinable(loc.i + 1)
            /\ loc' = [loc EXCEPT !.i = @ + 1]
            /\ UNCHANGED <<pc, ret>>
       ELSE /\ pc' = "done"
            /\ ret' = "ok"
            /\ UNCHANGED loc
    /\ UNCHANGED <<disk, fdtab, call, log, pre, faults>>

\* ------------------------------------------------ r_all: walk and read_thr

\* A thread that is stopped where it stands as soon as alive is False.
WithThrStopped(l, t, r) ==
    [l EXCEPT !.threads[t] = IF l.alive THEN r ELSE [r EXCEPT !.pc = "returned"]]

\* The thread t, and the driver's variables with t's fields replaced.
Thr(t) == loc.threads[t]
WithThr(l, t, r) == [l EXCEPT !.threads[t] = r]

\* A walk that leaves out the first file of every directory.
RECURSIVE RunSkip(_, _)
RunSkip(q, listed) ==
    IF q.state = "finished"
    THEN [queue |-> q, out |-> "StopIteration", fname |-> "", listed |-> listed]
    ELSE IF ~disk.isdir
    THEN [queue |-> [q EXCEPT !.state = "finished"], out |-> "ValueError",
          fname |-> "", listed |-> listed]
    ELSE IF q.dir >= 1 /\ q.k < Len(disk.dirs[q.dir])
    THEN [queue |-> [q EXCEPT !.state = "suspended", !.k = q.k + 1],
          out |-> "yield", fname |-> disk.dirs[q.dir][q.k + 1], listed |-> listed]
    ELSE IF q.dir < Len(disk.dirs)
    THEN RunSkip([q EXCEPT !.dir = q.dir + 1, !.k = 1], listed + 1)
    ELSE [queue |-> [q EXCEPT !.state = "finished"], out |-> "StopIteration",
          fname |-> "", listed |-> listed]

\* The generator's body from where it stands to its next yield, its return or
\* its raise: the isdir check before anything else, then the files of the
\* directory at hand, then the next directory, which scandir.walk lists.
\* [queue, out, fname, listed]: listed counts the directories listed.
RECURSIVE Run(_, _)
Run(q, listed) ==
    IF q.state = "finished"
    THEN [queue |-> q, out |-> "StopIteration", fname |-> "", listed |-> listed]
    ELSE IF ~disk.isdir
    THEN [queue |-> [q EXCEPT !.state = "finished"], out |-> "ValueError",
          fname |-> "", listed |-> listed]
    ELSE IF q.dir >= 1 /\ q.k < Len(disk.dirs[q.dir])
    THEN [queue |-> [q EXCEPT !.state = "suspended", !.k = q.k + 1],
          out |-> "yield", fname |-> disk.dirs[q.dir][q.k + 1], listed |-> listed]
    ELSE IF q.dir < Len(disk.dirs)
    THEN Run([q EXCEPT !.dir = q.dir + 1, !.k = 0], listed + 1)
    ELSE [queue |-> [q EXCEPT !.state = "finished"], out |-> "StopIteration",
          fname |-> "", listed |-> listed]

\* A lock any thread can take at any time.
LockAlways == TRUE

\* lock.acquire() can return: no thread holds the lock.
LockFree == loc.lock = 0

\* A lock that a thread keeps when it leaves the block.
Kept(t) == loc.lock

\* The lock after thread t leaves `with lock:`.
Released(t) == IF loc.lock = t THEN 0 ELSE loc.lock

\* The I/O done under the lock so far, after thread t has done I/O of a kind.
IoBy(t, kind) == IF loc.lock = t THEN loc.io \cup {kind} ELSE loc.io

\* read_thr: `with lock:` entered.
Acquire(t) ==
    /\ t \in Threads
    /\ call.mod = RAll
    /\ Thr(t).pc = "loop"
    /\ LockFree
    /\ loc' = [WithThr(loc, t, [Thr(t) EXCEPT !.pc = "next"]) EXCEPT !.lock = t]
    /\ UNCHANGED <<disk, fdtab, call, pc, ret, log, pre, faults>>

\* read_thr: fname = queue.next() resumes the generator, which checks the
\* directory (first resume) and lists directories until it has a file to
\* yield.  A generator that another thread is running raises ValueError.
QueueNext(t) ==
    /\ t \in Threads
    /\ Thr(t).pc = "next"
    /\ IF loc.queue.state = "running"
       THEN loc' = [WithThr(loc, t, [Thr(t) EXCEPT !.pc = "died", !.exc = "ValueError"])
                      EXCEPT !.lock = Released(t)]
       ELSE LET r == Run(loc.queue, 0) IN
            loc' = [WithThr(loc, t, [Thr(t) EXCEPT !.pc = "yield"])
                      EXCEPT !.queue.state = IF @ = "finished" THEN @ ELSE "running",
                             !.io = IF r.listed > 0 \/ loc.queue.state = "created"
                                    THEN IoBy(t, "scandir") ELSE @]
    /\ UNCHANGED <<disk, fdtab, call, pc, ret, log, pre, faults>>

\* read_thr: queue.next() ends and `with lock:` is left: with a file name,
\* and the thread goes on to read it; with StopIteration, and the thread
\* returns; with the ValueError of walk, which ends the thread.
QueueYield(t) ==
    /\ t \in Threads
    /\ Thr(t).pc = "yield"
    /\ LET r == Run(loc.queue, 0)
           thr == IF r.out = "yield"
                  THEN [Thr(t) EXCEPT !.pc = "read", !.fname = r.fname,
                                      !.got = Append(@, r.fname)]
                  ELSE IF r.out = "StopIteration"
                  THEN [Thr(t) EXCEPT !.pc = "returned"]
                  ELSE [Thr(t) EXCEPT !.pc = "died", !.exc = "ValueError"]
       IN loc' = [WithThr(loc, t, thr) EXCEPT !.queue = r.queue, !.lock = Released(t)]
    /\ UNCHANGED <<disk, fdtab, call, pc, ret, log, pre, faults>>

\* read_thr: r_seq(fname, blocksz), after `with lock:`.  An error of r_seq is
\* caught nowhere and ends the thread.
ReadFile(t) ==
    /\ t \in Threads
    /\ Thr(t).pc = "read"
    /\ \E ok \in Outcomes :
         LET thr == IF ok THEN [Thr(t) EXCEPT !.pc = "loop"]
                    ELSE [Thr(t) EXCEPT !.pc = "died", !.exc = "OSError"]
         IN loc' = [WithThr(loc, t, thr) EXCEPT !.io = IoBy(t, "read")]
    /\ UNCHANGED <<disk, fdtab, call, pc, ret, log, pre, faults>>

\* ------------------------------------------------ fs_loop: fstat

\* A slot of the descriptor table that is free.
ClosedFd == [path |-> "", pos |-> 0, open |-> FALSE]

\* The number os.open returns: the lowest one not open.
LowestFree(t) ==
    IF \E i \in 1..Len(t) : ~t[i].open
    THEN CHOOSE i \in 1..Len(t) : ~t[i].open /\ \A j \in 1..(i - 1) : t[j].open
    ELSE Len(t) + 1

\* The table after os.open(p, ...) has succeeded.
Opened(t, p) ==
    IF LowestFree(t) > Len(t) THEN Append(t, NewFd(p))
    ELSE [t EXCEPT ![LowestFree(t)] = NewFd(p)]

\* fstat: `while alive:` and f = files[randint(0, count)].  With alive False
\* the thread returns; with an empty list randint(0, -1) raises ValueError.
FstatLoop(t) ==
    /\ t \in Threads
    /\ call.mod = FsLoop
    /\ Thr(t).pc = "loop"
    /\ IF ~loc.alive
       THEN loc' = WithThr(loc, t, [Thr(t) EXCEPT !.pc = "returned"])
       ELSE IF loc.files = <<>>
       THEN loc' = WithThr(loc, t, [Thr(t) EXCEPT !.pc = "died", !.exc = "ValueError"])
       ELSE \E n \in 1..Len(loc.files) :
              loc' = WithThr(loc, t, [Thr(t) EXCEPT !.pc = "open",
                                                    !.fname = loc.files[n]])
    /\ UNCHANGED <<disk, fdtab, call, pc, ret, log, pre, faults>>

\* fstat: fh = os.open(f, os.O_RDONLY), inside the try block.
FstatOpen(t) ==
    /\ t \in Threads
    /\ Thr(t).pc = "open"
    /\ \E ok \in Outcomes :
         IF ok
         THEN /\ fdtab' = Opened(fdtab, Thr(t).fname)
              /\ loc' = WithThr(loc, t, [Thr(t) EXCEPT !.pc = "fstat",
                                                       !.fh = LowestFree(fdtab)])
         ELSE /\ loc' = WithThr(loc, t, [Thr(t) EXCEPT !.pc = "finally",
                                                       !.exc = "OSError"])
              /\ UNCHANGED fdtab
    /\ UNCHANGED <<disk, call, pc, ret, log, pre, faults>>

\* fstat: os.fstat(fh); it fails on a descriptor that has been closed.
FstatCall(t) ==
    /\ t \in Threads
    /\ Thr(t).pc = "fstat"
    /\ \E ok \in Outcomes :
         IF ok /\ fdtab[Thr(t).fh].open
         THEN loc' = WithThr(loc, t, [Thr(t) EXCEPT !.pc = "finally"])
         ELSE loc' = WithThr(loc, t, [Thr(t) EXCEPT !.pc = "finally",
                                                    !.exc = "OSError"])
    /\ UNCHANGED <<disk, fdtab, call, pc, ret, log, pre, faults>>

\* fstat: except: raise / finally: os.close(fh).  fh is the name's value,
\* whatever this turn of the loop did: not bound when the first os.open
\* failed (NameError), the number of an earlier turn when a later os.open
\* failed, which is closed already (OSError) or is by now the number of
\* another thread's descriptor, which is then closed.  A pending error goes
\* on and ends the thread.
FstatFinally(t) ==
    /\ t \in Threads
    /\ Thr(t).pc = "finally"
    /\ IF Thr(t).fh = 0
       THEN /\ loc' = WithThr(loc, t, [Thr(t) EXCEPT !.pc = "died", !.exc = "NameError"])
            /\ UNCHANGED fdtab
       ELSE IF ~fdtab[Thr(t).fh].open
       THEN /\ loc' = WithThr(loc, t, [Thr(t) EXCEPT !.pc = "died", !.exc = "OSError"])
            /\ UNCHANGED fdtab
       ELSE /\ fdtab' = [fdtab EXCEPT ![Thr(t).fh] = ClosedFd]
            /\ loc' = WithThr(loc, t, [Thr(t) EXCEPT
                        !.pc = IF Thr(t).exc = "none" THEN "loop" ELSE "died"])
    /\ UNCHANGED <<disk, call, pc, ret, log, pre, faults>>

\* ------------------------------------------------ the drivers' specifications

\* The threads a driver may come to start.
MaxPool == MaxThreads + 1

\* r_all.py on every tree, with reads that may fail.
InitCursor == \E d \in Trees : IdlePool(d, TRUE)

NextCursor ==
    \/ \E threadct \in 1..MaxThreads : RAllMain(threadct)
    \/ StartThreads
    \/ JoinThreads
    \/ \E t \in 1..MaxPool : Acquire(t)
    \/ \E t \in 1..MaxPool : QueueNext(t)
    \/ \E t \in 1..MaxPool : QueueYield(t)
    \/ \E t \in 1..MaxPool : ReadFile(t)

SpecCursor == InitCursor /\ [][NextCursor]_vars

\* r_all.py under a fair scheduler, with reads that may fail and with reads
\* that do not: main and every thread that can run do run.  The root is not
\* a directory, is empty, or holds a file in each of two directories.
FairTrees == {NotADir, Tree(<<<<>>>>), Tree(<<<<"f1">>, <<"f2">>>>)}

InitCursorFair == \E d \in FairTrees : \E flt \in BOOLEAN : IdlePool(d, flt)

Reader(t) == Acquire(t) \/ QueueNext(t) \/ QueueYield(t) \/ ReadFile(t)

SpecCursorFair ==
    /\ InitCursorFair
    /\ [][NextCursor]_vars
    /\ WF_vars(StartThreads)
    /\ WF_vars(JoinThreads)
    /\ \A t \in 1..MaxPool : WF_vars(Reader(t))

\* fs_loop.py on a root that is not a directory, on an empty one and on one
\* with a file in each of two directories, with system calls that may fail.
SamplerTrees == {NotADir, Tree(<<<<>>>>), Tree(<<<<"f1">>, <<"f2">>>>)}

InitSampler == \E d \in SamplerTrees : IdlePool(d, TRUE)

NextSampler ==
    \/ \E thr_ct \in 1..MaxThreads : FsLoopMain(thr_ct)
    \/ StartThreads
    \/ FsLoopInput
    \/ JoinThreads
    \/ \E t \in 1..MaxPool : FstatLoop(t)
    \/ \E t \in 1..MaxPool : FstatOpen(t)
    \/ \E t \in 1..MaxPool : FstatCall(t)
    \/ \E t \in 1..MaxPool : FstatFinally(t)

SpecSampler == InitSampler /\ [][NextSampler]_vars

\* A thread that can run does run, and so does main: the scheduler is fair.
Worker(t) == FstatLoop(t) \/ FstatOpen(t) \/ FstatCall(t) \/ FstatFinally(t)

SpecSamplerFair ==
    /\ InitSampler
    /\ [][NextSampler]_vars
    /\ WF_vars(JoinThreads)
    /\ \A t \in 1..MaxPool : WF_vars(Worker(t))

\* ------------------------------------------------ filegen

\* Largest file count filegen is asked for.
MaxQty == 4

\* The two file generators: bin/filegen.py and the later filegen.py.
BinFilegen == "bin/filegen"
Filegen == "filegen"

\* filegen's arguments; split = 0 stands for None (`if split:` takes both
\* for false).
NoGen == [mod |-> "", op |-> "", qty |-> 0, split |-> 0]

\* filegen's locals: qty and split as the code rebinds them, the count of
\* files in the directory at hand (current_ct, dir_ct), the count of all
\* files (global_ct), and the directory at hand (-1: dst itself).
NoGenLoc == [qty |-> 0, split |-> 0, dir_ct |-> 0, global_ct |-> 0, current_dir |-> -1]

\* Before a call, in a destination without subdirectories.  disk is the set
\* of subdirectories made, log the files written, as <<directory, number>>.
IdleGen ==
    /\ disk = {}
    /\ fdtab = <<>>
    /\ call = NoGen
    /\ pc = "idle"
    /\ loc = NoGenLoc
    /\ ret = "none"
    /\ log = <<>>
    /\ pre = {}
    /\ faults = FALSE

\* The statements before the loops: with split, the directory 0 is made and
\* becomes the working directory; without, dst is and split = qty.
FilegenCall(m, qty, split) ==
    /\ pc = "idle"
    /\ call' = [NoGen EXCEPT !.mod = m, !.op = "filegen", !.qty = qty, !.split = split]
    /\ IF split # 0
       THEN /\ loc' = [NoGenLoc EXCEPT !.qty = qty, !.split = split, !.current_dir = 0]
            /\ disk' = disk \cup {0}
       ELSE /\ loc' = [NoGenLoc EXCEPT !.qty = qty, !.split = qty]
            /\ UNCHANGED disk
    /\ pc' = "while"
    /\ pre' = disk
    /\ UNCHANGED <<fdtab, ret, log, faults>>

\* filegen.py: `if global_ct == qty` after the counters are updated.
LimitReached == loc.global_ct + 1 = call.qty

\* One turn of the inner loop `while current_ct < split` (`while dir_ct <
\* split`): a file is written in the working directory and the counters
\* are updated (bin/filegen.py: qty -= 1); filegen.py then returns when the
\* count of all files has reached qty.  The files written are counted up to
\* 2 * MaxQty + 1.
FilegenWrite ==
    /\ pc = "while"
    /\ loc.dir_ct < loc.split
    /\ Len(log) <= 2 * MaxQty
    /\ log' = Append(log, <<loc.current_dir, loc.dir_ct>>)
    /\ loc' = [loc EXCEPT !.dir_ct = @ + 1, !.global_ct = @ + 1,
                          !.qty = IF call.mod = BinFilegen THEN @ - 1 ELSE @]
    /\ IF call.mod = Filegen /\ LimitReached
       THEN pc' = "done" /\ ret' = "ok"
       ELSE UNCHANGED <<pc, ret>>
    /\ UNCHANGED <<disk, fdtab, call, pre, faults>>

\* The inner loop is over.  bin/filegen.py: `if qty == 0: break`, and the
\* function returns.  Otherwise the next directory is made and becomes the
\* working directory, and the directory's count starts again.
FilegenNextDir ==
    /\ pc = "while"
    /\ ~(loc.dir_ct < loc.split)
    /\ IF call.mod = BinFilegen /\ loc.qty = 0
       THEN /\ pc' = "done"
            /\ ret' = "ok"
            /\ UNCHANGED <<loc, disk>>
       ELSE /\ loc' = [loc EXCEPT !.current_dir = @ + 1, !.dir_ct = 0]
            /\ disk' = disk \cup {loc.current_dir + 1}
            /\ UNCHANGED <<pc, ret>>
    /\ UNCHANGED <<fdtab, call, log, pre, faults>>

InitFilegen == IdleGen

NextFilegen ==
    \/ \E m \in {BinFilegen, Filegen} : \E qty \in 1..MaxQty :
         \E split \in 0..(MaxQty + 1) : FilegenCall(m, qty, split)
    \/ FilegenWrite
    \/ FilegenNextDir

SpecFilegen == InitFilegen /\ [][NextFilegen]_vars

\* ------------------------------------------------ calls of w_rand_blk in a row

\* Most calls made in a row on one file.
MaxCalls == 3

\* The caller has its result and goes on to its next statement: the file
\* stays as the call left it, and so does the closed descriptor in the table.
NextStatement ==
    /\ pc = "done"
    /\ Len(fdtab) < MaxCalls
    /\ pc' = "idle"
    /\ log' = <<>>
    /\ ret' = "none"
    /\ loc' = NoLoc
    /\ UNCHANGED <<disk, fdtab, call, pre, faults>>

\* w_rand_blk of lib/pyio.py called again and again on the file "a" with one
\* block size, the smallest or the largest, which the file holds at the
\* first call; the system calls succeed.
InitRandBlkSeq == Idle(DiskA(File(Content(MaxSizeKB * KB + 1))), FALSE)

NextRandBlkSeq ==
    \/ \E blksz \in {1, MaxBlk} :
         /\ IF call.op = "" THEN blksz * KB <= st_size(disk, "a")
                            ELSE blksz = call.blksz
         /\ RandBlkCall(Lib, "w_rand_blk", "a", blksz, FALSE)
    \/ Open1
    \/ RandBlkSeek
    \/ RandBlkWrite
    \/ Finally1
    \/ NextStatement

SpecRandBlkSeq == InitRandBlkSeq /\ [][NextRandBlkSeq]_vars

\* ------------------------------------------------ w_rand_blk and r_rand_blk in threads

\* A thread about to call w_rand_blk or r_rand_blk of lib/pyio.py on "a".
NewCaller(op) ==
    [pc |-> "call", op |-> op, size |-> 0, blksz |-> 0, buf |-> <<>>, fd |-> 0,
     ret |-> "none"]

NoPair == [threads |-> <<>>]

\* MaxThreads threads are started, each with one call to make, all with the
\* block size blksz, which the file holds.
PairStart(blksz) ==
    /\ pc = "idle"
    /\ blksz * KB <= st_size(disk, "a")
    /\ \E ops \in [1..MaxThreads -> {"w_rand_blk", "r_rand_blk"}] :
         loc' = [threads |-> [t \in 1..MaxThreads |-> NewCaller(ops[t])]]
    /\ call' = [NoCall EXCEPT !.mod = Lib, !.op = "threads", !.src = "a", !.blksz = blksz]
    /\ pc' = "run"
    /\ pre' = disk
    /\ UNCHANGED <<disk, fdtab, ret, log, faults>>

\* size = os.stat(fname).st_size, the buffer of w_rand_blk, blksz in bytes
\* and the size check.
PairStat(t) ==
    /\ pc = "run" /\ t \in Threads /\ Thr(t).pc = "call"
    /\ \E b \in urandom(KB) :
         LET size == st_size(disk, call.src)
             buf == IF Thr(t).op = "w_rand_blk" THEN Repeat(b, call.blksz) ELSE <<>>
             r == [Thr(t) EXCEPT !.size = size, !.blksz = call.blksz * KB, !.buf = buf]
         IN loc' = WithThr(loc, t,
                     IF TooBig(size, call.blksz * KB)
                     THEN [r EXCEPT !.ret = "ValueError", !.pc = "done"]
                     ELSE [r EXCEPT !.pc = "open"])
    /\ UNCHANGED <<disk, fdtab, call, pc, ret, log, pre, faults>>

\* fd = os.open(fname, os.O_CREAT | os.O_TRUNC | os.O_WRONLY) of w_rand_blk,
\* fd = os.open(fname, os.O_RDONLY) of r_rand_blk.
PairOpen(t) ==
    /\ pc = "run" /\ t \in Threads /\ Thr(t).pc = "open"
    /\ disk' = IF Thr(t).op = "w_rand_blk" THEN Truncated(call.src) ELSE disk
    /\ fdtab' = Append(fdtab, NewFd(call.src))
    /\ loc' = WithThr(loc, t, [Thr(t) EXCEPT !.fd = Len(fdtab) + 1, !.pc = "seek"])
    /\ UNCHANGED <<call, pc, ret, log, pre, faults>>

\* os.lseek(fd, random.randint(0, size - blksz), 0)
PairSeek(t) ==
    /\ pc = "run" /\ t \in Threads /\ Thr(t).pc = "seek"
    /\ \E o \in randint(0, Thr(t).size - Thr(t).blksz) :
         fdtab' = [fdtab EXCEPT ![Thr(t).fd].pos = o]
    /\ loc' = WithThr(loc, t, [Thr(t) EXCEPT !.pc = "io"])
    /\ UNCHANGED <<disk, call, pc, ret, log, pre, faults>>

\* os.write(fd, buf) of w_rand_blk, os.read(fd, blksz) of r_rand_blk.
PairIo(t) ==
    /\ pc = "run" /\ t \in Threads /\ Thr(t).pc = "io"
    /\ IF Thr(t).op = "w_rand_blk"
       THEN WriteFd(Thr(t).fd, Thr(t).buf)
       ELSE /\ fdtab' = [fdtab EXCEPT ![Thr(t).fd].pos =
                            @ + Len(ReadFd(Thr(t).fd, Thr(t).blksz))]
            /\ log' = Append(log, Entry("read", Thr(t).fd, fdtab[Thr(t).fd].pos,
                                        Len(ReadFd(Thr(t).fd, Thr(t).blksz))))
            /\ UNCHANGED disk
    /\ loc' = WithThr(loc, t, [Thr(t) EXCEPT !.pc = "finally"])
    /\ UNCHANGED <<call, pc, ret, pre, faults>>

\* finally: os.close(fd)
PairClose(t) ==
    /\ pc = "run" /\ t \in Threads /\ Thr(t).pc = "finally"
    /\ fdtab' = Closed(fdtab, Thr(t).fd)
    /\ loc' = WithThr(loc, t, [Thr(t) EXCEPT !.ret = "ok", !.pc = "done"])
    /\ UNCHANGED <<disk, call, pc, ret, log, pre, faults>>

\* Threads calling w_rand_blk and r_rand_blk on one file of one or more
\* blocks; the system calls succeed.
InitPair ==
    /\ \E n \in {KB, 2 * KB + 1} : disk = DiskA(File(Content(n)))
    /\ fdtab = <<>>
    /\ call = NoCall
    /\ pc = "idle"
    /\ loc = NoPair
    /\ ret = "none"
    /\ log = <<>>
    /\ pre = disk
    /\ faults = FALSE

NextPair ==
    \/ \E blksz \in 1..2 : PairStart(blksz)
    \/ \E t \in 1..MaxThreads : PairStat(t)
    \/ \E t \in 1..MaxThreads : PairOpen(t)
    \/ \E t \in 1..MaxThreads : PairSeek(t)
    \/ \E t \in 1..MaxThreads : PairIo(t)
    \/ \E t \in 1..MaxThreads : PairClose(t)

SpecPair == InitPair /\ [][NextPair]_vars

\* ------------------------------------------------------------ properties

\* The errors the primitives raise for a bad argument: the ValueError of the
\* size check and the Exception of the same-file check.
InvalidArgument == {"ValueError", "Exception"}

\* The entries of the log of one kind.
Calls(sys) == SelectSeq(log, LAMBDA e : e.sys = sys)

\* The offsets read so far, in order.
Visited == [i \in 1..Len(Calls("read")) |-> Calls("read")[i].off]

\* The block map of the call's file as it was when the call was made.
MapAtCall == blk_map_of(pre, call.src, call.blksz).map

\* C1: for a file of S >= 0 bytes and a block size B > 0, the block map has
\* ceil(S / B) offsets, the i-th is i * B (0-based), the last is below S, and
\* the map of an empty file is empty.
C1_BlockMapShape ==
    (pc = "done" /\ call.op = "_blk_map" /\ call.blksz > 0 /\ StatOk(disk, call.src)) =>
        LET S == st_size(disk, call.src)
            B == call.blksz * KB
            n == Len(loc.blk_map)
        IN /\ ret = "ok"
           /\ n * B >= S /\ (n - 1) * B < S
           /\ \A i \in 1..n : loc.blk_map[i] = (i - 1) * B
           /\ (n > 0 => loc.blk_map[n] < S)
           /\ (S = 0 => loc.blk_map = <<>>)

\* A map of several blocks whose last block is a partial one has been computed.
C1_Witness ==
    /\ pc = "done" /\ call.op = "_blk_map" /\ ret = "ok" /\ call.blksz > 0
    /\ Len(loc.blk_map) >= 2
    /\ st_size(disk, call.src) % (call.blksz * KB) # 0

\* C2: a block map asked for with a block size <= 0 fails with
\* InvalidArgument: no map is returned and no other error is raised.
C2_NonPositiveRejected ==
    (pc = "done" /\ call.op = "_blk_map" /\ call.blksz <= 0 /\ StatOk(disk, call.src)) =>
        ret \in InvalidArgument

\* C3: a copy with a block size > 0 that returns without error leaves a
\* destination with the length and the bytes of the source, in each order (cp,
\* cp_conv, cp_rand); the descriptor backend leaves the source as it was.
C3_CopyIdentical ==
    (pc = "done" /\ call.op \in CopyOps /\ ret = "ok" /\ call.blksz > 0) =>
        /\ disk[loc.dst].kind = "file"
        /\ disk[loc.dst].data = disk[call.src].data
        /\ (call.mod # Win32 => /\ disk[call.src] = pre[call.src]
                                /\ disk[loc.dst].data = pre[call.src].data)

\* A converging copy of a source of several blocks, the last one partial, onto
\* an older and longer file has returned.
C3_Witness ==
    /\ pc = "done" /\ call.op = "cp_conv" /\ ret = "ok" /\ call.mod = Lib
    /\ pre[loc.dst].kind = "file" /\ Len(pre[loc.dst].data) > Len(pre[call.src].data)
    /\ Len(MapAtCall) >= 3
    /\ Len(disk[loc.dst].data) % (call.blksz * KB) # 0

\* The order in which the loop `while blk_map: offset = blk_map.pop(idx())`
\* (converging) or `... blk_map.pop()` takes the offsets of a map.
RECURSIVE Drain(_, _, _)
Drain(op, m, idx) ==
    IF m = <<>> THEN <<>>
    ELSE LET t == TakeOffset(op, m, idx)
         IN <<t.item>> \o Drain(op, t.rest, cycle_next(idx))

\* The k-th offset (k from 0) the converging order takes of map b.
ConvAt(b, k) == IF k % 2 = 0 THEN b[(k \div 2) + 1] ELSE b[Len(b) - ((k - 1) \div 2)]

\* C4: a converging traversal (r_conv, cp_conv) of the block map b[0..n-1]
\* visits b[k/2] at an even step k and b[n-1-(k-1)/2] at an odd one, so every
\* offset once; [0,1,2,3] is taken as [0,3,1,2], [0,1,2,3,4] as [0,4,1,3,2],
\* and the middle offset of an odd map last.
C4_ConvergingOrder ==
    /\ (call.op \in {"r_conv", "cp_conv"} /\ pc \notin {"idle"}) =>
         /\ Len(Visited) <= Len(MapAtCall)
         /\ \A k \in 0..(Len(Visited) - 1) : Visited[k + 1] = ConvAt(MapAtCall, k)
         /\ (pc = "done" /\ ret = "ok" =>
               /\ Len(Visited) = Len(MapAtCall)
               /\ \A i \in 1..Len(MapAtCall) :
                    Cardinality({k \in 1..Len(Visited) : Visited[k] = MapAtCall[i]}) = 1
               /\ (Len(MapAtCall) % 2 = 1 =>
                     Visited[Len(Visited)] = MapAtCall[(Len(MapAtCall) + 1) \div 2]))
    /\ Drain("r_conv", <<0, 1, 2, 3>>, 0) = <<0, 3, 1, 2>>
    /\ Drain("cp_conv", <<0, 1, 2, 3, 4>>, 0) = <<0, 4, 1, 3, 2>>

\* A converging read of a map of three offsets has ended with the middle one.
C4_Witness ==
    /\ pc = "done" /\ call.op = "r_conv" /\ ret = "ok"
    /\ Len(MapAtCall) = 3
    /\ Visited = <<MapAtCall[1], MapAtCall[3], MapAtCall[2]>>

\* C5: a shuffled pass (r_rand, cp_rand) over a map of N offsets visits no
\* offset twice and, when it returns, has visited exactly the N offsets of
\* the map.
C5_ShuffleOnce ==
    (call.op \in {"r_rand", "cp_rand"} /\ pc \notin {"idle"}) =>
        /\ \A i, j \in 1..Len(Visited) : i # j => Visited[i] # Visited[j]
        /\ \A i \in 1..Len(Visited) : \E k \in 1..Len(MapAtCall) : Visited[i] = MapAtCall[k]
        /\ (pc = "done" /\ ret = "ok" =>
              /\ Len(Visited) = Len(MapAtCall)
              /\ {Visited[i] : i \in 1..Len(Visited)} =
                 {MapAtCall[k] : k \in 1..Len(MapAtCall)})

\* A shuffled copy has visited three offsets in an order that is neither the
\* map's nor its reverse.
C5_Witness ==
    /\ pc = "done" /\ call.op = "cp_rand" /\ ret = "ok"
    /\ Len(Visited) = 3
    /\ Visited[1] = MapAtCall[2]

\* C6: w_zero, w_srand and w_rand with size >= 0 and blksz > 0 cut the file
\* to nothing and write it in sequence: every write but the last carries
\* blksz KB, the last the remainder (size mod blksz KB, which may be none), the
\* file ends size KB long, and w_zero leaves only zero bytes.
C6_FillSize ==
    (pc = "done" /\ call.op \in FillOps /\ ret = "ok") =>
        LET w == Calls("write")
            data == disk[call.src].data
        IN /\ Len(data) = call.size * KB
           /\ Len(w) = (call.size \div call.blksz) + 1
           /\ \A i \in 1..(Len(w) - 1) :
                w[i].len = call.blksz * KB /\ w[i].off = (i - 1) * call.blksz * KB
           /\ w[Len(w)].len = (call.size % call.blksz) * KB
           /\ w[Len(w)].off = (Len(w) - 1) * call.blksz * KB
           /\ (call.op = "w_zero" => \A i \in 1..Len(data) : data[i] = 0)

\* w_zero has filled, over an older file, a file smaller than one block.
C6_Witness ==
    /\ pc = "done" /\ call.op = "w_zero" /\ ret = "ok"
    /\ 0 < call.size /\ call.size < call.blksz
    /\ pre[call.src] = Older
    /\ Len(disk[call.src].data) = call.size * KB

\* C7: a copy whose source and resolved destination are the same file fails
\* with InvalidArgument before the destination is opened, in every backend:
\* the disk stays as it was.
C7_SameFileRejected ==
    (call.op \in CopyOps /\ pc # "idle"
        /\ samefile(pre, call.src, Resolve(pre, call.src, call.dst))) =>
        /\ disk = pre
        /\ log = <<>>
        /\ (pc = "done" => ret \in InvalidArgument)

\* C8: w_rand_blk and r_rand_blk fail with InvalidArgument exactly when the
\* block size in bytes exceeds the file's size; a failed check leaves the
\* file as it was, and a block of the file's size is taken at offset 0.
C8_SizeCheck ==
    (pc = "done" /\ call.op \in {"w_rand_blk", "r_rand_blk"} /\ StatOk(pre, call.src)) =>
        LET S == st_size(pre, call.src)
            B == call.blksz * KB
        IN /\ (ret \in InvalidArgument) <=> (B > S)
           /\ (ret \in InvalidArgument => disk = pre /\ log = <<>>)
           /\ (B <= S => ret = "ok")
           /\ (B = S => \A i \in 1..Len(log) : log[i].sys = "lseek" => log[i].off = 0)

\* A block of exactly the file's size has been written, and a block one KB
\* larger than a file has been refused.
C8_Witness ==
    /\ pc = "done" /\ call.op = "w_rand_blk"
    /\ call.blksz > 0
    /\ call.blksz * KB = st_size(pre, call.src)
    /\ ret = "ok"
    /\ Len(Calls("write")) = 1

\* C9: when the block size B > 0 is at most the file's size S, w_rand_blk makes
\* one write of B bytes at an offset o in 0..S-B, and every byte before o
\* keeps its value.
C9_PrefixKept ==
    (pc = "done" /\ call.op = "w_rand_blk" /\ ret = "ok" /\ call.blksz > 0) =>
        LET w == Calls("write")
            S == st_size(pre, call.src)
            B == call.blksz * KB
        IN /\ Len(w) = 1
           /\ w[1].len = B
           /\ 0 <= w[1].off /\ w[1].off <= S - B
           /\ Len(disk[call.src].data) >= w[1].off
           /\ \A i \in 1..w[1].off : disk[call.src].data[i] = pre[call.src].data[i]

\* C10: when a primitive has returned or raised, by whatever path, every
\* descriptor it opened has been closed.
C10_NoLeak == pc = "done" => OpenFds = {}

\* A copy whose two descriptors were open has ended with an I/O error.
C10_Witness ==
    /\ pc = "done" /\ call.op \in CopyOps /\ ret = "OSError"
    /\ Len(fdtab) = 2

\* C11: when an open, read, write, seek or flush of a primitive has failed,
\* the error the caller gets is that I/O error: a call that ends after a
\* system call failed inside its try block ends with the pending error, not
\* with another one raised by its cleanup.
C11_ErrorPropagates ==
    (pc = "done" /\ loc.exc # "none") => ret = loc.exc

\* The primitives that write: the fills, the random-block write and the copies.
WriteOps == FillOps \cup {"w_rand_blk"} \cup CopyOps

\* The places in the log of the system calls of one kind.
Positions(sys) == {i \in 1..Len(log) : log[i].sys = sys}

\* C12: a write or copy primitive that returns normally with fsync set has
\* issued exactly one flush, of the descriptor it wrote to, after its last
\* write and before that descriptor is closed; with fsync not set it has
\* issued none.
C12_FlushOnce ==
    (pc = "done" /\ ret = "ok" /\ call.op \in WriteOps) =>
        LET fs == Positions("fsync")
            ws == Positions("write")
            cs == Positions("close")
        IN IF call.fsync
           THEN /\ Cardinality(fs) = 1
                /\ \A f \in fs :
                     /\ \A w \in ws : w < f /\ log[w].fd = log[f].fd
                     /\ \E c \in cs : log[c].fd = log[f].fd
                     /\ \A c \in cs : log[c].fd = log[f].fd => f < c
           ELSE fs = {}

\* A shuffled copy of two blocks with fsync set has returned after its flush,
\* and so has a fill of a whole block.
C12_Witness ==
    /\ pc = "done" /\ ret = "ok" /\ call.fsync
    /\ call.op \in {"cp_rand", "w_srand"}
    /\ Cardinality(Positions("write")) >= 2
    /\ Cardinality(Positions("fsync")) = 1

\* main has left the loop that starts the threads.
Started == pc \in {"join", "input"} \/ (pc = "done" /\ ret # "ValueError")

\* C13: a driver asked for N threads has started exactly N once its start
\* loop is over, r_all.py (cursor mode) as well as fs_loop.py (sampler mode).
C13_ExactlyN == Started => Len(loc.threads) = call.threadct

\* The files handed to the threads so far, as (thread, turn) places.
Handed == UNION {{<<t, n>> : n \in 1..Len(Thr(t).got)} : t \in Threads}

\* C14: in r_all.py at most one thread is inside queue.next() at a time, no
\* thread meets a generator that another one is running, and no file is
\* handed out twice, to the same thread or to two.
C14_TakeNextExclusive ==
    /\ Cardinality({t \in Threads : Thr(t).pc \in {"next", "yield"}}) <= 1
    /\ \A t \in Threads : Thr(t).pc \in {"next", "yield"} => loc.lock = t
    /\ \A t \in Threads : Thr(t).pc = "died" /\ Thr(t).exc = "ValueError" => ~disk.isdir
    /\ \A x, y \in Handed : x # y => Thr(x[1]).got[x[2]] # Thr(y[1]).got[y[2]]

\* The threads have shared the three files of a tree, two of them at least
\* taking one, and main has joined them all.
C14_Witness ==
    /\ call.mod = RAll /\ pc = "done"
    /\ Cardinality(Handed) = 3
    /\ \E t, u \in Threads : t # u /\ Thr(t).got # <<>> /\ Thr(u).got # <<>>
    /\ \A t \in Threads : Thr(t).pc = "returned"

\* C15: alive is True when the module is loaded, and the only step that
\* changes it is main's except KeyboardInterrupt clause, which sets it to
\* False and touches no thread: no thread writes it, nothing sets it back.
C15_FlagMonotonic ==
    /\ [](pc = "idle" => loc.alive)
    /\ [][loc.alive' # loc.alive =>
            /\ loc.alive /\ ~loc.alive'
            /\ pc = "input" /\ pc' = "join"
            /\ loc.threads' = loc.threads]_vars

\* alive has been set to False while a thread was inside its loop, and that
\* thread has since returned.
C15_Witness ==
    /\ call.mod = FsLoop /\ ~loc.alive
    /\ \E t \in Threads : Thr(t).pc = "returned" /\ Thr(t).fname # ""

\* C16: once alive is False every thread of fs_loop.py ends and main's joins
\* return, under fair scheduling and system calls that complete; and main
\* never gets past its joins while a thread is still running.
C16_StopThenJoin ==
    /\ [](pc = "done" /\ ret = "ok" => \A t \in Threads : Thr(t).pc \in Terminated)
    /\ [](pc = "join" => \A t \in 1..loc.i : Thr(t).pc \in Terminated)
    /\ (~loc.alive ~> (pc = "done" /\ ret = "ok"))

\* main has joined two threads, one of which returned from its loop and one of
\* which an error ended.
C16_Witness ==
    /\ call.mod = FsLoop /\ pc = "done" /\ ret = "ok" /\ ~loc.alive
    /\ \E t, u \in Threads :
         /\ Thr(t).pc = "returned" /\ Thr(t).fname # ""
         /\ Thr(u).pc = "died"

\* C17: in fs_loop.py (sampler mode) a failed call inside a thread does not
\* end the thread: no thread is ended by an I/O error or by the error its
\* cleanup raises in its place.
C17_SamplerKeepsLooping ==
    \A t \in Threads : ~(Thr(t).pc = "died" /\ Thr(t).exc \in {"OSError", "NameError"})

\* C18: when the root is not a directory the driver fails with
\* InvalidArgument before it has started a thread: no thread ever exists,
\* and main ends with that error.
C18_BadRootAbortsStartup ==
    (pc # "idle" /\ ~pre.isdir) =>
        /\ loc.threads = <<>>
        /\ (pc = "done" => ret \in InvalidArgument)

\* C20: in r_all.py no thread does blocking I/O while it holds the lock:
\* not the read of the file, not the listing of directories that gives the
\* next path.
C20_NoIoUnderLock == loc.io = {}

\* C19: for qty >= 1, with or without split, filegen writes exactly qty
\* files and returns: it never writes a file beyond the qty-th, and when it
\* has returned it has written qty files, each a different one.
C19_ExactlyQty ==
    call.op = "filegen" =>
        /\ Len(log) <= call.qty
        /\ (pc = "done" => Len(log) = call.qty /\ ret = "ok")
        /\ \A i, j \in 1..Len(log) : i # j => log[i] # log[j]

\* The files of the tree, every name once.
AllFiles == {Flatten(disk.dirs)[n] : n \in 1..Len(Flatten(disk.dirs))}

\* C21: the failure of one thread never ends another.  In fs_loop.py a
\* thread returns only when alive is False, and a call of a thread fails
\* only on a descriptor that is still open, not on one that another thread
\* has closed under it; in r_all.py a thread returns only when every file
\* of the tree has been handed out.
C21_FailureIsolated ==
    /\ [](\A t \in Threads : Thr(t).pc = "returned" =>
            IF call.mod = FsLoop THEN ~loc.alive
            ELSE {Thr(h[1]).got[h[2]] : h \in Handed} = AllFiles)
    /\ [][\A t \in Threads :
            (call.mod = FsLoop /\ Thr(t).pc = "fstat" /\ loc.threads'[t].exc # "none")
                => fdtab[Thr(t).fh].open]_vars

\* C22: a thread of fs_loop.py leaves its loop only at the `while alive`
\* test and only when alive is False; once past the test it goes through
\* open, fstat and close in turn whatever alive becomes, and only an error
\* of one of them ends it otherwise.
C22_CancelAtBoundary ==
    [][\A t \in Threads :
         LET a == Thr(t).pc
             b == loc.threads'[t].pc
         IN a # b =>
              \/ a = "loop" /\ b = "returned" /\ ~loc.alive
              \/ a = "loop" /\ b \in {"open", "died"} /\ loc.alive
              \/ a = "open" /\ b \in {"fstat", "finally"}
              \/ a = "fstat" /\ b = "finally"
              \/ a = "finally" /\ b \in {"loop", "died"}]_vars

\* alive has been set to False while a thread held a descriptor it had just
\* opened.
C22_Witness ==
    /\ call.mod = FsLoop /\ ~loc.alive
    /\ \E t \in Threads :
         Thr(t).pc = "finally" /\ Thr(t).exc = "none" /\ fdtab[Thr(t).fh].open

\* C27: a thread of fs_loop.py closes only the descriptor its own turn of
\* the loop opened: when it comes to os.close(fh) with a number in fh, that
\* descriptor is open, and no other thread is using the same number.
C27_ClosesOwnDescriptor ==
    \A t \in Threads :
        (call.mod = FsLoop /\ Thr(t).pc = "finally" /\ Thr(t).fh # 0) =>
            /\ fdtab[Thr(t).fh].open
            /\ \A u \in Threads \ {t} :
                 Thr(u).pc \in {"fstat", "finally"} => Thr(u).fh # Thr(t).fh

\* The bytes that the write w put into the file are copies of buf laid end
\* to end.
CopiesOf(buf, w) ==
    LET data == disk[call.src].data
        off == w.off
        n == Len(buf)
    IN /\ n > 0
       /\ w.len % n = 0
       /\ off + w.len <= Len(data)
       /\ \A k \in 0..((w.len \div n) - 1) :
            SubSeq(data, off + k * n + 1, off + (k + 1) * n) = buf

\* C23 as amended: w_srand draws its buffer once, before os.open, and never
\* again; the buffer is 1024 bytes long whatever the block size, and every
\* write carries copies of it laid end to end (blksz of them, size mod blksz
\* in the last write).
C23_KilobyteBuffer ==
    /\ []((call.op = "w_srand" /\ pc # "idle") =>
            LET w == Calls("write")
            IN /\ Len(loc.buf) = KB
               /\ \A n \in 1..Len(w) : CopiesOf(loc.buf, w[n]))
    /\ [][(call.op = "w_srand" /\ pc # "idle") => loc.buf' = loc.buf]_vars

\* w_srand has written a file of several blocks of more than one KB each,
\* the last one shorter.
C23_Witness ==
    /\ pc = "done" /\ call.op = "w_srand" /\ ret = "ok"
    /\ call.blksz >= 2 /\ call.size > call.blksz /\ call.size % call.blksz # 0

\* C23 as stated: the buffer of w_srand is one block (blksz KB) long and
\* every block written is a copy of it.
C23_BlockSizedBuffer ==
    (call.op = "w_srand" /\ pc # "idle") =>
        /\ Len(loc.buf) = call.blksz * KB
        /\ \A n \in 1..Len(Calls("write")) :
             LET w == Calls("write")[n]
             IN \A i \in 1..w.len : disk[call.src].data[w.off + i] = loc.buf[i]

\* The blocks a copy has moved so far: the n-th read with the n-th write.
Moved ==
    LET rd == Calls("read")
        wr == Calls("write")
    IN [n \in 1..Len(wr) |-> <<rd[n], wr[n]>>]

\* C30: at every step of cp_conv and cp_rand each block is written to the
\* destination at the offset it was read from, the bytes written so far are
\* the source's bytes at the same positions, the source is as it was at the
\* call, and the destination is never longer than the source.
C30_SameOffsets ==
    (call.op \in {"cp_conv", "cp_rand"} /\ pc \in {"cloop", "cfsync", "cfinally", "done"}
       /\ loc.fddst # 0) =>
        LET src == disk[call.src].data
            dst == disk[loc.dst].data
            mv == Moved
        IN /\ src = pre[call.src].data
           /\ Len(dst) <= Len(src)
           /\ Len(Calls("read")) = Len(Calls("write"))
           /\ \A n \in 1..Len(mv) :
                LET rd == mv[n][1]
                    wr == mv[n][2]
                IN /\ rd.off = wr.off
                   /\ rd.len = wr.len
                   /\ wr.off + wr.len <= Len(dst)
                   /\ SubSeq(dst, wr.off + 1, wr.off + wr.len) =
                        SubSeq(src, wr.off + 1, wr.off + wr.len)

\* A converging copy has moved the first and the last block of a source of
\* three or more blocks onto an older, longer file: the middle is still a gap.
C30_Witness ==
    /\ call.op = "cp_conv" /\ pc = "cloop" /\ Len(Moved) = 2
    /\ Len(MapAtCall) >= 3
    /\ Len(pre[loc.dst].data) > Len(pre[call.src].data)
    /\ Moved[2][2].off > Moved[1][2].off + Moved[1][2].len

\* C24: a fill ends for every size >= 0 and every block size: each turn of
\* its write loop that stays in the loop leaves less to write than before,
\* and never less than nothing, so the exit test `size < blksz` is reached.
C24_FillTerminates ==
    [][(call.op \in FillOps /\ pc = "loop" /\ pc' = "loop") =>
          (0 <= loc.size' /\ loc.size' < loc.size)]_vars

\* C25: over calls of w_rand_blk made one after another on one file with
\* one block size, the first on a file of at least a block: no call fails
\* the size check, and each call that returns leaves the file no longer than
\* it found it and at least one block long.
C25_SizeStaysInRange ==
    call.op = "w_rand_blk" =>
        /\ ret \notin InvalidArgument
        /\ pc = "idle" => st_size(disk, "a") >= call.blksz * KB
        /\ pc = "done" => /\ ret = "ok"
                          /\ st_size(disk, "a") <= st_size(pre, "a")
                          /\ st_size(disk, "a") >= call.blksz * KB

\* A call has returned that found the file as an earlier call had left it
\* (a gap of zeros, then the block), and left it shorter.
C25_Witness ==
    /\ call.op = "w_rand_blk" /\ pc = "done" /\ ret = "ok"
    /\ pre["a"].data # <<>> /\ pre["a"].data[1] = 0
    /\ st_size(disk, "a") < st_size(pre, "a")

\* C26: threads calling w_rand_blk and r_rand_blk at the same time on a
\* file that held a block at the start: no call fails the size check.
C26_NoSizeFailure ==
    call.op = "threads" => \A t \in Threads : Thr(t).ret \notin InvalidArgument

\* C28: a thread of r_all.py holds the lock only inside `with lock:`, at
\* queue.next(): it has let go of it when it goes on to read, when it
\* returns on StopIteration and when an error ends it.  So a thread waiting
\* for the lock gets it, and main comes to the end of its joins.
C28_LockReleased ==
    /\ [](call.mod = RAll =>
            /\ loc.lock # 0 => loc.lock \in Threads /\ Thr(loc.lock).pc \in {"next", "yield"}
            /\ \A t \in Threads : Thr(t).pc \in {"next", "yield"} => loc.lock = t)
    /\ \A t \in 1..MaxPool :
         (t \in Threads /\ Thr(t).pc = "loop") ~> (t \in Threads /\ Thr(t).pc # "loop")
    /\ (pc = "start") ~> (pc = "done")

\* A thread was ended by the ValueError of walk and another thread has
\* taken the lock after it.
C28_Witness ==
    /\ call.mod = RAll
    /\ \E t, u \in Threads :
         t # u /\ Thr(t).pc = "died" /\ Thr(t).exc = "ValueError" /\ loc.lock = u

\* The number of times the file f has been handed to a thread.
Taken(f) == Cardinality({h \in Handed : Thr(h[1]).got[h[2]] = f})

\* C29: r_all.py on a directory, with reads that do not fail: main comes to
\* the end of its joins without any signal, every thread has then returned,
\* and every file of the tree has been read once and by one thread.
C29_AllReadOnce ==
    /\ []((call.mod = RAll /\ pc = "done" /\ ~faults /\ disk.isdir) =>
            /\ ret = "ok" /\ loc.alive
            /\ \A t \in Threads : Thr(t).pc = "returned"
            /\ \A f \in AllFiles : Taken(f) = 1
            /\ \A h \in Handed : Thr(h[1]).got[h[2]] \in AllFiles)
    /\ (pc = "start" /\ ~faults /\ disk.isdir) ~> (pc = "done")

\* main has returned after two threads shared the files of a tree, which
\* lie in different directories.
C29_Witness ==
    /\ call.mod = RAll /\ pc = "done" /\ ~faults /\ disk.isdir
    /\ Cardinality(AllFiles) >= 2
    /\ \E t, u \in Threads : t # u /\ Thr(t).got # <<>> /\ Thr(u).got # <<>>
====
